---- MODULE Spec2Model ----
(***************************************************************************)
(* Model of the article recommender: the cleaning entry point              *)
(* (clean_data.py) and the recommendation entry point and its functions    *)
(* (recommender.py).                                                       *)
(*                                                                         *)
(* Data frames are sequences of row records, in row order.  The            *)
(* interaction matrix is a record                                          *)
(*   [index: sequence of row labels, columns: sequence of column labels,   *)
(*    values: sequence of rows of cells].                                  *)
(* Column labels are Python values: an int (PyInt) in the matrix the       *)
(* pivot builds, a str (PyStr) in a matrix read back from a CSV header.    *)
(***************************************************************************)
EXTENDS Integers, Sequences, FiniteSets, TLC

\* ------------------------------------------------------------- bounds
MaxRawRows == 3     \* rows of the raw interaction file (full pipeline)
MaxEmailRows == 4   \* rows of the raw interaction file (anonymizer runs)
MaxRows == 4        \* rows of a clean interaction table (function runs)
NumArticles == 2    \* distinct article ids
MaxM == 2           \* largest recommendation count requested

Emails == {"a", "b", "c"}
NaN == "NaN"
Articles == 1..NumArticles
RawRow == [email : Emails \cup {NaN}, article_id : Articles]

\* ------------------------------------------------------------- helpers
Range(s) == {s[i] : i \in DOMAIN s}

SeqsUpTo(S, n) == UNION {[1..k -> S] : k \in 0..n}

RECURSIVE SumSeq(_)
SumSeq(s) == IF s = <<>> THEN 0 ELSE Head(s) + SumSeq(Tail(s))

Min(a, b) == IF a <= b THEN a ELSE b

\* ascending order of a finite set of integers (pandas sorts group keys)
SortedSeq(S) ==
    [k \in 1..Cardinality(S) |->
        CHOOSE x \in S : Cardinality({y \in S : y < x}) = k - 1]

NoDuplicates(s) == \A i, j \in DOMAIN s : i # j => s[i] # s[j]

\* Python values used as labels
PyInt(n) == [t |-> "int", v |-> n]
PyStr(n) == [t |-> "str", v |-> n]     \* the decimal text of n

\* to_csv writes a value as its text; read_csv parses a numeric cell back
\* to an int, and keeps the header names as text
FormatCell(n) == PyStr(n)
FormatLabel(l) == PyStr(l.v)
ParseCell(c) == c.v

EmptyMatrix == [index |-> <<>>, columns |-> <<>>, values |-> <<>>]
EmptyCsv == [header |-> <<>>, rows |-> <<>>]
DatasetTypes == <<"user-item", "item", "user-item-matrix">>
AllWritten == Range(DatasetTypes)

VARIABLES
    raw,               \* rows of the raw user-item file
    pc,                \* position of the running entry point
    coded_dict,        \* email_mapper: email -> id
    cter,              \* email_mapper: next unused id
    email_encoded,     \* email_mapper: ids assigned so far, one per row
    user_item_df,      \* clean interaction table
    user_item_matrix,  \* matrix built by create_user_item_matrix
    save_i,            \* position in data_dict.items() of the save loop
    disk,              \* ./data/processed/ and ./email_encoding/
    user_id,           \* argument user_id
    m,                 \* argument m / reco_count
    path,              \* branch main took: "none", "cold" or "warm"
    recommendations,   \* what main obtained
    loaded_matrix,     \* user_item_matrix as load_data returned it
    neighbors_df,      \* result of get_top_sorted_users
    seen_article_ids,  \* user_user_recs local
    article_views,     \* user_user_recs local
    nbr_i,             \* user_user_recs: position in the neighbor list
    recs,              \* user_user_recs: running list
    ret                \* user_user_recs: returned id list

cleanVars == <<raw, coded_dict, cter, email_encoded, user_item_df,
               user_item_matrix, save_i, disk>>
mainVars == <<path, recommendations, loaded_matrix>>
recVars == <<neighbors_df, seen_article_ids, article_views, nbr_i, recs, ret>>
vars == <<pc, cleanVars, user_id, m, mainVars, recVars>>

\* ------------------------------------------------------- clean_data.py

\* rows that survive user_item_df[~user_item_df['email'].isnull()]
Filtered(rows) == SelectSeq(rows, LAMBDA r : r.email # NaN)

\* email_mapper loop body: the dictionary after seeing val
DictAfter(d, c, val) ==
    IF val \notin DOMAIN d THEN d @@ (val :> c) ELSE d

CterStuck(d, c, val) == c

\* email_mapper loop body: the counter after seeing val
CterAfter(d, c, val) ==
    IF val \notin DOMAIN d THEN c + 1 ELSE c

\* number of rows of df for the pair (u, a): the pivot's sum of view_count,
\* NaN where the pair has no row
PivotCell(df, u, a) ==
    LET n == Cardinality({i \in DOMAIN df :
                            df[i].user_id = u /\ df[i].article_id = a})
    IN  [isnan |-> (n = 0), v |-> n]

KeepCount(c) == IF c.isnan THEN 0 ELSE c.v

\* (pivot >= 1) * 1 ; NaN >= 1 is False
Binarize(c) == IF (~c.isnan) /\ c.v >= 1 THEN 1 ELSE 0

create_user_item_matrix(df) ==
    LET users == SortedSeq({df[i].user_id : i \in DOMAIN df})
        items == SortedSeq({df[i].article_id : i \in DOMAIN df})
    IN  [index   |-> users,
         columns |-> [q \in DOMAIN items |-> PyInt(items[q])],
         values  |-> [p \in DOMAIN users |->
                        [q \in DOMAIN items |->
                            Binarize(PivotCell(df, users[p], items[q]))]]]

\* df.to_csv(..., index=False): header and cells, the index is not written
MatrixToCsv(mat) ==
    [header |-> [q \in DOMAIN mat.columns |-> FormatLabel(mat.columns[q])],
     rows   |-> [p \in DOMAIN mat.values |->
                    [q \in DOMAIN mat.values[p] |->
                        FormatCell(mat.values[p][q])]]]

TableToCsv(df) ==
    [i \in DOMAIN df |-> [user_id    |-> FormatCell(df[i].user_id),
                          article_id |-> FormatCell(df[i].article_id)]]

CleanInit(rows) ==
    /\ raw \in rows
    /\ pc = "clean_data"
    /\ coded_dict = <<>>
    /\ cter = 1
    /\ email_encoded = <<>>
    /\ user_item_df = <<>>
    /\ user_item_matrix = EmptyMatrix
    /\ save_i = 1
    /\ disk = [written |-> {}, user_item |-> <<>>, matrix |-> EmptyCsv,
               encodings |-> <<>>]

IdleInit ==
    /\ user_id = 0
    /\ m = 0
    /\ path = "none"
    /\ recommendations = <<>>
    /\ loaded_matrix = EmptyMatrix
    /\ neighbors_df = <<>>
    /\ seen_article_ids = <<>>
    /\ article_views = <<>>
    /\ nbr_i = 1
    /\ recs = <<>>
    /\ ret = <<>>

\* clean_data up to the call of email_mapper
CleanDataLoad ==
    /\ pc = "clean_data"
    /\ pc' = "email_mapper"
    /\ coded_dict' = <<>>
    /\ cter' = 1
    /\ email_encoded' = <<>>
    /\ UNCHANGED <<raw, user_item_df, user_item_matrix, save_i, disk>>
    /\ UNCHANGED <<user_id, m, mainVars, recVars>>

\* read_csv, del of a missing column or astype(int) raises
CleanDataFail ==
    /\ pc = "clean_data"
    /\ pc' = "clean_error"
    /\ UNCHANGED <<cleanVars, user_id, m, mainVars, recVars>>

\* one iteration of  for val in df['email']
EmailMapperStep ==
    /\ pc = "email_mapper"
    /\ Len(email_encoded) < Len(Filtered(raw))
    /\ LET val == Filtered(raw)[Len(email_encoded) + 1].email
           d   == DictAfter(coded_dict, cter, val)
       IN  /\ coded_dict' = d
           /\ cter' = CterAfter(coded_dict, cter, val)
           /\ email_encoded' = Append(email_encoded, d[val])
    /\ UNCHANGED <<pc, raw, user_item_df, user_item_matrix, save_i, disk>>
    /\ UNCHANGED <<user_id, m, mainVars, recVars>>

\* the loop is over: the mapping is pickled, the ids become the user_id
\* column, the email column is deleted, the article file is cleaned
EmailMapperReturn ==
    /\ pc = "email_mapper"
    /\ Len(email_encoded) = Len(Filtered(raw))
    /\ disk' = [disk EXCEPT !.encodings = coded_dict]
    /\ user_item_df' =
          [i \in DOMAIN email_encoded |->
              [user_id    |-> email_encoded[i],
               article_id |-> Filtered(raw)[i].article_id]]
    /\ pc' = "create_matrix"
    /\ UNCHANGED <<raw, coded_dict, cter, email_encoded, user_item_matrix,
                   save_i>>
    /\ UNCHANGED <<user_id, m, mainVars, recVars>>

\* open('./email_encoding/encodings.pkl', 'wb') or the article file raises
CleanDataAbort ==
    /\ pc = "email_mapper"
    /\ Len(email_encoded) = Len(Filtered(raw))
    /\ pc' = "clean_error"
    /\ UNCHANGED <<cleanVars, user_id, m, mainVars, recVars>>

CreateUserItemMatrix ==
    /\ pc = "create_matrix"
    /\ user_item_matrix' = create_user_item_matrix(user_item_df)
    /\ save_i' = 1
    /\ pc' = "saving"
    /\ UNCHANGED <<raw, coded_dict, cter, email_encoded, user_item_df, disk>>
    /\ UNCHANGED <<user_id, m, mainVars, recVars>>

\* pivot_table raises (no memory for the dense pivot)
CreateMatrixFail ==
    /\ pc = "create_matrix"
    /\ pc' = "clean_error"
    /\ UNCHANGED <<cleanVars, user_id, m, mainVars, recVars>>

\* one iteration of the save loop of main: save_data returns
SaveData ==
    /\ pc = "saving"
    /\ disk' = [disk EXCEPT
                  !.written = @ \cup {DatasetTypes[save_i]},
                  !.user_item = IF DatasetTypes[save_i] = "user-item"
                                THEN TableToCsv(user_item_df) ELSE @,
                  !.matrix = IF DatasetTypes[save_i] = "user-item-matrix"
                             THEN MatrixToCsv(user_item_matrix) ELSE @]
    /\ IF save_i = Len(DatasetTypes)
          THEN pc' = "clean_done" /\ save_i' = save_i
          ELSE pc' = pc /\ save_i' = save_i + 1
    /\ UNCHANGED <<raw, coded_dict, cter, email_encoded, user_item_df,
                   user_item_matrix>>
    /\ UNCHANGED <<user_id, m, mainVars, recVars>>

\* one iteration of the save loop of main: os.makedirs or to_csv raises,
\* nothing in main catches it
SaveDataFail ==
    /\ pc = "saving"
    /\ pc' = "clean_error"
    /\ UNCHANGED <<cleanVars, user_id, m, mainVars, recVars>>

\* ------------------------------------------------------- recommender.py

RefUser == 1

\* pd.read_csv of user-item-matrix.csv: a RangeIndex 0..n-1, the header
\* names as text, the cells parsed
ReadMatrixCsv(csv) ==
    [index   |-> [p \in DOMAIN csv.rows |-> p - 1],
     columns |-> csv.header,
     values  |-> [p \in DOMAIN csv.rows |->
                    [q \in DOMAIN csv.rows[p] |-> ParseCell(csv.rows[p][q])]]]

\* pd.read_csv of user-item-clean.csv
ReadTableCsv(csv) ==
    [i \in DOMAIN csv |-> [user_id    |-> ParseCell(csv[i].user_id),
                           article_id |-> ParseCell(csv[i].article_id)]]

\* the title column: every row of an article carries that article's title
Title(a) == [title_of |-> a]

\* np.isin(user_id, df['user_id'])
is_new_user(u, df) == u \in {df[i].user_id : i \in DOMAIN df}

\* df.groupby(['article_id'])['user_id'].count()
ViewCount(df, a) == Cardinality({i \in DOMAIN df : df[i].article_id = a})

\* the per-article counts sorted by sort_values(ascending=False) on one key:
\* the order among equal counts is whatever the sort produces
ArticleViewOrders(df) ==
    LET ids == {df[i].article_id : i \in DOMAIN df}
        n   == Cardinality(ids)
    IN  {[k \in 1..n |-> [article_id |-> s[k],
                          view_count |-> ViewCount(df, s[k])]] :
            s \in {t \in [1..n -> ids] :
                      /\ \A i, j \in 1..n : i # j => t[i] # t[j]
                      /\ \A i, j \in 1..n :
                            i < j => ViewCount(df, t[i]) >= ViewCount(df, t[j])}}

\* views.iloc[:n] -> ids -> titles
get_top_articles(views, n) ==
    [k \in 1..Min(n, Len(views)) |-> Title(views[k].article_id)]

\* user_item.loc[label, :]
Loc(mat, label) ==
    LET P == {p \in DOMAIN mat.index : mat.index[p] = label}
    IN  IF P = {} THEN [ok |-> FALSE, row |-> <<>>]
        ELSE [ok |-> TRUE, row |-> mat.values[CHOOSE p \in P : TRUE]]

\* get_user_articles, the id list: the labels of the columns holding 1 in
\* the row of user_id, in column order; ok = FALSE is the KeyError of .loc
get_user_articles(u, mat) ==
    LET r == Loc(mat, u)
        qs == SelectSeq([q \in DOMAIN mat.columns |-> q],
                        LAMBDA q : r.row[q] = 1)
    IN  IF ~r.ok THEN [ok |-> FALSE, ids |-> <<>>]
        ELSE [ok |-> TRUE, ids |-> [k \in DOMAIN qs |-> mat.columns[qs[k]]]]

Dot(r1, r2) == SumSeq([q \in DOMAIN r1 |-> r1[q] * r2[q]])

\* df.groupby(['user_id'])['article_id'].count()
NumInteractions(df, u) == Cardinality({i \in DOMAIN df : df[i].user_id = u})

\* row a is placed before row b by the two-key descending sort
Before(a, b) ==
    \/ a.similarity > b.similarity
    \/ a.similarity = b.similarity /\ a.num_interactions > b.num_interactions

\* the rows ordered by the two keys, descending or ascending; rows equal on
\* both keys keep their order (a multi-key sort_values is stable)
SortRows(rows, descending) ==
    LET Lt(a, b) == IF descending THEN Before(a, b) ELSE Before(b, a)
        Rank(i) == 1 + Cardinality({j \in DOMAIN rows :
                          Lt(rows[j], rows[i])
                          \/ (~Lt(rows[i], rows[j]) /\ j < i)})
    IN  [k \in DOMAIN rows |-> rows[CHOOSE i \in DOMAIN rows : Rank(i) = k]]

SortValuesAscending(rows) == SortRows(rows, FALSE)

\* sort_values(['similarity', 'num_interactions'], ascending=[False, False])
SortValues(rows) == SortRows(rows, TRUE)

get_top_sorted_users(u, df, mat) ==
    LET ref    == Loc(mat, RefUser).row
        merged == [p \in DOMAIN mat.index |->
                     [neighbor_id      |-> mat.index[p],
                      similarity       |-> Dot(mat.values[p], ref),
                      num_interactions |-> NumInteractions(df, mat.index[p])]]
    IN  SelectSeq(SortValues(merged), LAMBDA r : r.neighbor_id # u)

KeepAll(article_ids, seen) == article_ids

\* [item for item in article_ids if item not in seen_article_ids]
user_reco_ids(article_ids, seen) ==
    SelectSeq(article_ids, LAMBDA item : item \notin Range(seen))

\* article_views[article_views['article_id'].isin(user_reco_ids)]
\*     ['article_id'].tolist()
user_recos(views, reco_ids) ==
    LET kept == SelectSeq(views,
                    LAMBDA r : PyInt(r.article_id) \in Range(reco_ids))
    IN  [k \in DOMAIN kept |-> kept[k].article_id]

WholeList(list, n) == list

\* list[:n] for n >= 0
Slice(list, n) == SubSeq(list, 1, Min(n, Len(list)))

AllUserIds == 1..(MaxRows + 1)

\* main: load_data raises, a file of ./data/processed/ is missing
RecMainLoadFail(u, n) ==
    /\ pc \in {"clean_done", "clean_error"}
    /\ disk.written # AllWritten
    /\ user_id' = u /\ m' = n
    /\ pc' = "rec_error"
    /\ UNCHANGED <<cleanVars, mainVars, recVars>>

\* main: the branch of  if is_new_user(user_id, user_item_df)
RecMainCold(u, n) ==
    /\ pc \in {"clean_done", "clean_error"}
    /\ disk.written = AllWritten
    /\ LET df == ReadTableCsv(disk.user_item)
       IN  /\ is_new_user(u, df)
           /\ \E views \in ArticleViewOrders(df) :
                 recommendations' = get_top_articles(views, n)
    /\ loaded_matrix' = ReadMatrixCsv(disk.matrix)
    /\ path' = "cold"
    /\ user_id' = u /\ m' = n
    /\ pc' = "rec_done"
    /\ UNCHANGED <<cleanVars, recVars>>

\* main: the else branch.  The call made there, user_user_recs(user_id,
\* user_item_df, reco_count), raises at its first statement: line 208 calls
\* get_user_articles without its user_item argument
RecMainWarm(u, n) ==
    /\ pc \in {"clean_done", "clean_error"}
    /\ disk.written = AllWritten
    /\ ~is_new_user(u, ReadTableCsv(disk.user_item))
    /\ loaded_matrix' = ReadMatrixCsv(disk.matrix)
    /\ path' = "warm"
    /\ recommendations' = <<>>
    /\ user_id' = u /\ m' = n
    /\ pc' = "rec_error"
    /\ UNCHANGED <<cleanVars, recVars>>

RecMainNext ==
    \E u \in AllUserIds, n \in 0..MaxM :
        \/ RecMainLoadFail(u, n)
        \/ RecMainCold(u, n)
        \/ RecMainWarm(u, n)

\* ---------------------------------------------- function-level runs
\* The functions of recommender.py applied to the table and the matrix the
\* cleaning run holds in memory.  The calls inside user_user_recs (lines
\* 208, 218, 227) leave out the frames their callees declare; the loop is
\* modelled with those parameters bound to the table and the matrix it is
\* run on, which is the only reading under which its body executes.

InMemory == pc = "saving" /\ save_i = 1

CallGetTopSortedUsers(u) ==
    /\ InMemory
    /\ Loc(user_item_matrix, u).ok
    /\ neighbors_df' = get_top_sorted_users(u, user_item_df, user_item_matrix)
    /\ user_id' = u
    /\ pc' = "gtsu_done"
    /\ UNCHANGED <<cleanVars, m, mainVars, seen_article_ids, article_views,
                   nbr_i, recs, ret>>

\* user_user_recs up to the loop (lines 207-222)
UURStart(u, n) ==
    /\ InMemory
    /\ Loc(user_item_matrix, u).ok
    /\ seen_article_ids' = get_user_articles(u, user_item_matrix).ids
    /\ article_views' \in ArticleViewOrders(user_item_df)
    /\ neighbors_df' = get_top_sorted_users(u, user_item_df, user_item_matrix)
    /\ recs' = <<>>
    /\ nbr_i' = 1
    /\ user_id' = u /\ m' = n
    /\ pc' = "uur_loop"
    /\ UNCHANGED <<cleanVars, mainVars, ret>>

\* one iteration of  for neighbor_id in neighbors_df['neighbor_id'],
\* with the return statement when the iteration ends in break
UURIter ==
    /\ pc = "uur_loop"
    /\ nbr_i <= Len(neighbors_df)
    /\ LET neighbor_id == neighbors_df[nbr_i].neighbor_id
           article_ids == get_user_articles(neighbor_id, user_item_matrix).ids
           reco_ids    == user_reco_ids(article_ids, seen_article_ids)
           extended    == recs \o user_recos(article_views, reco_ids)
       IN  /\ recs' = extended
           /\ IF Len(extended) >= m
                 THEN /\ pc' = "uur_done"
                      /\ nbr_i' = nbr_i
                      /\ ret' = Slice(extended, m)
                 ELSE /\ pc' = pc
                      /\ nbr_i' = nbr_i + 1
                      /\ ret' = ret
    /\ UNCHANGED <<cleanVars, user_id, m, mainVars, neighbors_df,
                   seen_article_ids, article_views>>

\* the neighbor list is exhausted: return recs[:m], ...
UURExhaust ==
    /\ pc = "uur_loop"
    /\ nbr_i > Len(neighbors_df)
    /\ ret' = Slice(recs, m)
    /\ pc' = "uur_done"
    /\ UNCHANGED <<cleanVars, user_id, m, mainVars, neighbors_df,
                   seen_article_ids, article_views, nbr_i, recs>>

RecsNext ==
    \/ CreateUserItemMatrix
    \/ \E u \in AllUserIds : CallGetTopSortedUsers(u)
    \/ \E u \in AllUserIds, n \in 0..MaxM : UURStart(u, n)
    \/ UURIter
    \/ UURExhaust

\* ------------------------------------------------------ specifications

\* the tables clean_data can return: user ids numbered 1, 2, ... in the
\* order of first appearance
RECURSIVE TablesOfLen(_)
TablesOfLen(n) ==
    IF n = 0 THEN {<<>>}
    ELSE UNION {{Append(t, [user_id |-> u, article_id |-> a]) :
                    u \in 1..(Cardinality({t[j].user_id : j \in DOMAIN t}) + 1),
                    a \in Articles} :
                t \in TablesOfLen(n - 1)}

CleanTables == UNION {TablesOfLen(n) : n \in 0..MaxRows}

Init == CleanInit(SeqsUpTo(RawRow, MaxRawRows)) /\ IdleInit

CleanNext ==
    \/ CleanDataLoad
    \/ CleanDataFail
    \/ EmailMapperStep
    \/ EmailMapperReturn
    \/ CleanDataAbort
    \/ CreateUserItemMatrix
    \/ CreateMatrixFail
    \/ SaveData
    \/ SaveDataFail

\* a cleaning run followed by a recommendation run
Next == CleanNext \/ RecMainNext

Spec == Init /\ [][Next]_vars

\* the anonymizer on raw files of up to MaxEmailRows rows
InitMapper ==
    /\ CleanInit(SeqsUpTo([email : Emails \cup {NaN}, article_id : {1}],
                          MaxEmailRows))
    /\ IdleInit

NextMapper ==
    \/ CleanDataLoad
    \/ CleanDataFail
    \/ EmailMapperStep
    \/ EmailMapperReturn
    \/ CleanDataAbort

SpecMapper == InitMapper /\ [][NextMapper]_vars

\* the matrix builder and the recommender functions on every clean table
\* of up to MaxRows rows
InitRecs ==
    /\ raw = <<>>
    /\ pc = "create_matrix"
    /\ coded_dict = <<>>
    /\ cter = 1
    /\ email_encoded = <<>>
    /\ user_item_df \in CleanTables
    /\ user_item_matrix = EmptyMatrix
    /\ save_i = 1
    /\ disk = [written |-> {}, user_item |-> <<>>, matrix |-> EmptyCsv,
               encodings |-> <<>>]
    /\ IdleInit

SpecRecs == InitRecs /\ [][RecsNext]_vars

\* ------------------------------------------------------------ properties

\* what the cleaning run hands to the matrix builder has the shape the
\* function-level runs start from
CleanTableShape ==
    pc \in {"create_matrix", "saving", "clean_done"} =>
        user_item_df \in CleanTables \/ Len(user_item_df) > MaxRows

UserIds(df) == {df[i].user_id : i \in DOMAIN df}
ItemsOf(df, u) == {df[i].article_id : i \in {j \in DOMAIN df : df[j].user_id = u}}

\* C1: main takes the cold path exactly when the requested user id does not
\* appear in the user_id column of the clean interaction table, and the warm
\* path exactly when it does.
C1_ColdIffUnknown ==
    path \in {"cold", "warm"} =>
        (path = "cold" <=>
            user_id \notin UserIds(ReadTableCsv(disk.user_item)))

\* C2: the similarity get_top_sorted_users(t, ...) reports for a user v is
\* the number of items both v and t have interacted with.
C2_SimilarityToTarget ==
    pc = "gtsu_done" =>
        \A k \in DOMAIN neighbors_df :
            neighbors_df[k].similarity =
                Cardinality(ItemsOf(user_item_df, neighbors_df[k].neighbor_id)
                            \cap ItemsOf(user_item_df, user_id))

\* C3: the neighbor list of target U never contains U, contains every other
\* user of the matrix exactly once, and of two consecutive entries the
\* earlier has greater similarity, or equal similarity and at least as many
\* rows in the clean interaction table.
C3_NeighborList ==
    pc = "gtsu_done" =>
        /\ \A k \in DOMAIN neighbors_df : neighbors_df[k].neighbor_id # user_id
        /\ {neighbors_df[k].neighbor_id : k \in DOMAIN neighbors_df}
              = Range(user_item_matrix.index) \ {user_id}
        /\ \A j, k \in DOMAIN neighbors_df :
              j # k => neighbors_df[j].neighbor_id # neighbors_df[k].neighbor_id
        /\ \A k \in 1..(Len(neighbors_df) - 1) :
              LET a == neighbors_df[k]
                  b == neighbors_df[k + 1]
              IN  \/ a.similarity > b.similarity
                  \/ /\ a.similarity = b.similarity
                     /\ NumInteractions(user_item_df, a.neighbor_id)
                           >= NumInteractions(user_item_df, b.neighbor_id)

\* two neighbors of equal similarity, the one with more interactions and
\* the larger id placed first
C3_Witness ==
    /\ pc = "gtsu_done"
    /\ \E k \in 1..(Len(neighbors_df) - 1) :
          /\ neighbors_df[k].similarity = neighbors_df[k + 1].similarity
          /\ neighbors_df[k].similarity > 0
          /\ neighbors_df[k].num_interactions
                > neighbors_df[k + 1].num_interactions
          /\ neighbors_df[k].neighbor_id > neighbors_df[k + 1].neighbor_id

Interacted(mat, u, a) ==
    \E q \in DOMAIN mat.columns :
        mat.columns[q] = PyInt(a) /\ Loc(mat, u).row[q] = 1

C7_AllOrNothing ==
    pc \notin {"clean_data", "email_mapper", "create_matrix", "saving"} =>
        disk.written \in {{}, AllWritten}

RawEmails == [i \in DOMAIN Filtered(raw) |-> Filtered(raw)[i].email]

\* the id of s[i] under first-seen numbering from 1
FirstSeenId(s, i) ==
    LET first == CHOOSE j \in 1..i :
                    s[j] = s[i] /\ \A k \in 1..(j - 1) : s[k] # s[i]
    IN  Cardinality({s[k] : k \in 1..(first - 1)}) + 1

\* C8: email_mapper returns a same-length id sequence, each distinct
\* identifier numbered with the next unused integer from 1 at its first
\* occurrence and reusing it later; equal identifiers share an id, distinct
\* ones never do, and the ids used are exactly 1..K.
C8_FirstSeenNumbering ==
    pc = "create_matrix" =>
        /\ Len(email_encoded) = Len(RawEmails)
        /\ \A i \in DOMAIN email_encoded :
              email_encoded[i] = FirstSeenId(RawEmails, i)
        /\ \A i, j \in DOMAIN email_encoded :
              (RawEmails[i] = RawEmails[j]) <=>
                  (email_encoded[i] = email_encoded[j])
        /\ Range(email_encoded) = 1..Cardinality(Range(RawEmails))

\* [a, b, a, c] gives [1, 2, 1, 3]
C8_Witness ==
    /\ pc = "create_matrix"
    /\ RawEmails = <<"a", "b", "a", "c">>
    /\ email_encoded = <<1, 2, 1, 3>>

\* C9: the matrix has exactly the distinct user ids as rows and the
\* distinct item ids as columns, every cell is 0 or 1, and a cell is 1
\* exactly for the pairs that occur in the table.
C9_BinaryPresenceMatrix ==
    pc \in {"saving", "gtsu_done", "uur_loop", "uur_done"} =>
        LET mat == user_item_matrix
            df  == user_item_df
        IN  /\ Range(mat.index) = UserIds(df)
            /\ NoDuplicates(mat.index)
            /\ Range(mat.columns) =
                  {PyInt(df[i].article_id) : i \in DOMAIN df}
            /\ NoDuplicates(mat.columns)
            /\ DOMAIN mat.values = DOMAIN mat.index
            /\ \A p \in DOMAIN mat.index :
                  /\ DOMAIN mat.values[p] = DOMAIN mat.columns
                  /\ \A q \in DOMAIN mat.columns :
                        /\ mat.values[p][q] \in {0, 1}
                        /\ mat.values[p][q] = 1 <=>
                              mat.columns[q].v \in ItemsOf(df, mat.index[p])

\* a pair that occurs twice in the table, and a pair that does not occur
C9_Witness ==
    /\ pc = "saving"
    /\ \E i, j \in DOMAIN user_item_df :
          i # j /\ user_item_df[i] = user_item_df[j]
    /\ \E p \in DOMAIN user_item_matrix.values :
          \E q \in DOMAIN user_item_matrix.values[p] :
              user_item_matrix.values[p][q] = 0

\* C10: after save and reload, looking up the row of any realized user id
\* in the loaded matrix gives the same interacted item ids as the row of
\* that user in the matrix that was built.
C10_MatrixRoundTrip ==
    path \in {"cold", "warm"} =>
        \A u \in Range(user_item_matrix.index) :
            LET loaded == get_user_articles(u, loaded_matrix)
                built  == get_user_articles(u, user_item_matrix)
            IN  /\ loaded.ok
                /\ {l.v : l \in Range(loaded.ids)}
                      = {l.v : l \in Range(built.ids)}
====
